---- MODULE Spec2Model ----
(***************************************************************************)
(* Model of pix/factory.py: the class registry of Factory (register,      *)
(* get_pix_cls) and the traversals over raw nested data (iter_contents,   *)
(* iter_children, objectfy).                                              *)
(*                                                                         *)
(* Raw nodes are records [t, v, ks, items]:                               *)
(*   t = "atom"  : a scalar, v its encoding ("s:Foo" the str 'Foo',       *)
(*                 "s:" the empty str, "i:0" / "i:1" ints, "none" None,   *)
(*                 "b:False" False);                                      *)
(*   t = "dict"  : ks the keys in iteration order, items the values,      *)
(*                 items[i] stored under ks[i];                           *)
(*   t = "list", "tuple", "set" : items the elements in iteration order.  *)
(* A node of the raw graph is identified by its path from the root (the   *)
(* indices into items), so "the same object" is "the same path".          *)
(*                                                                         *)
(* Values the operations return are records                               *)
(* [t, v, ks, items, bases, at, src]:                                     *)
(*   src = "arg" : the very object of the raw graph at path `at`;         *)
(*   src = "new" : an object the call created; for t = "obj" (an instance *)
(*                 of a synthesized type named v with base list `bases`)  *)
(*                 `at` is the path of the mapping it wraps; for          *)
(*                 t = "type" v is the type's __name__.                   *)
(***************************************************************************)
EXTENDS Integers, Sequences, FiniteSets, TLC

VARIABLES data, registry, calls, op, arg, ret

vars == <<data, registry, calls, op, arg, ret>>

\* ------------------------------------------------------------- bounds
MaxDepth == 3
SampleDepth == 0
MaxRegs == 2

\* ------------------------------------------------------------- scalars
\* bool(x) of a scalar: '', None, False and 0 are falsy.
Falsy == {"s:", "none", "b:False", "i:0"}

\* str(x) of a scalar.
Str(a) ==
  CASE a = "none" -> "s:None"
    [] a = "b:False" -> "s:False"
    [] a = "i:0" -> "s:0"
    [] a = "i:1" -> "s:1"
    [] OTHER -> a

\* ------------------------------------------------------------- raw nodes
Atom(a) == [t |-> "atom", v |-> a, ks |-> <<>>, items |-> <<>>]
Dict(keys, values) == [t |-> "dict", v |-> "", ks |-> keys, items |-> values]
List(elems) == [t |-> "list", v |-> "", ks |-> <<>>, items |-> elems]
Tuple(elems) == [t |-> "tuple", v |-> "", ks |-> <<>>, items |-> elems]
SetOf(elems) == [t |-> "set", v |-> "", ks |-> <<>>, items |-> elems]

None == Atom("none")

Containers == {"tuple", "list", "set"}

\* The values a 'class' entry takes in the generated inputs: two truthy ones (a
\* str and an int) and the four falsy scalars.
ClassVals == {"s:Foo", "i:1", "s:", "none", "b:False", "i:0"}

\* Only hashable values can be members of a set: scalars, and tuples of them.
RECURSIVE Hashable(_)
Hashable(n) ==
  \/ n.t = "atom"
  \/ n.t = "tuple" /\ \A i \in 1..Len(n.items) : Hashable(n.items[i])

Leaves ==
  {Atom("s:x"), Dict(<<>>, <<>>)} \cup {Dict(<<"class">>, <<Atom(c)>>) : c \in ClassVals}

\* The raw graphs of nesting depth at most d that the data source hands over.
RECURSIVE Gen(_)
Gen(d) ==
  IF d = 0 THEN Leaves
  ELSE LET S == Gen(d - 1)
       IN S
          \cup {Dict(<<"a">>, <<n>>) : n \in S}
          \cup {Dict(<<"class", "a">>, <<Atom("s:Foo"), n>>) : n \in S}
          \cup {Dict(<<"b", "a", "class">>,
                     <<Dict(<<"class">>, <<Atom("i:1")>>), n, Atom("s:")>>) : n \in S}
          \cup {List(<<n, Dict(<<"class">>, <<Atom("s:Foo")>>)>>) : n \in S}
          \cup {Tuple(<<n>>) : n \in S}
          \cup {SetOf(<<n>>) : n \in {m \in S : Hashable(m)}}
          \cup {SetOf(<<Atom("s:x"), n>>) : n \in {m \in S : Hashable(m) /\ m.t # "atom"}}

\* The node of tree `root` at path p.
RECURSIVE NodeAt(_, _)
NodeAt(root, p) ==
  IF p = <<>> THEN root ELSE NodeAt(root.items[Head(p)], Tail(p))

\* The paths of all nodes of the tree n, each prefixed by p.
RECURSIVE PathsFrom(_, _)
PathsFrom(n, p) ==
  {p} \cup UNION {PathsFrom(n.items[i], Append(p, i)) : i \in 1..Len(n.items)}

Paths(root) == PathsFrom(root, <<>>)

\* ------------------------------------------------------------- returned values
Out(t, v, ks, items, bases, at, src) ==
  [t |-> t, v |-> v, ks |-> ks, items |-> items, bases |-> bases, at |-> at, src |-> src]

\* The object of the raw graph at path p, handed on as it is.
Same(root, p) ==
  LET n == NodeAt(root, p)
  IN Out(n.t, n.v, n.ks, <<>>, <<>>, p, "arg")

New(t, ks, items) == Out(t, "", ks, items, <<>>, <<>>, "new")

Nothing == Out("nothing", "", <<>>, <<>>, <<>>, <<>>, "new")

\* ------------------------------------------------------------- classes
\* The behaviour classes handed to register: K1 and K2 derive from PIXObject,
\* K3 derives from K1.  Mro(k) is k.__mro__.
Classes == {"K1", "K2", "K3"}

DefaultBase == "PIXObject"

Mro(k) ==
  CASE k = "K1" -> <<"K1", "PIXObject", "object">>
    [] k = "K2" -> <<"K2", "PIXObject", "object">>
    [] k = "K3" -> <<"K3", "K1", "PIXObject", "object">>
    [] k = "PIXObject" -> <<"PIXObject", "object">>
    [] OTHER -> <<"object">>

\* The names register is called with.
Names == {"s:Foo", "s:1"}

InSeq(x, s) == \E i \in 1..Len(s) : s[i] = x

\* The C3 merge type() runs over the linearizations of the bases and the base
\* list itself: TRUE when a consistent method resolution order exists.
RECURSIVE Mergeable(_)
Mergeable(ls) ==
  LET ne == SelectSeq(ls, LAMBDA l : l # <<>>)
      good == {i \in 1..Len(ne) : \A j \in 1..Len(ne) : ~InSeq(ne[i][1], Tail(ne[j]))}
  IN IF ne = <<>> THEN TRUE
     ELSE IF good = {} THEN FALSE
     ELSE LET i == CHOOSE x \in good : \A y \in good : x <= y
              h == ne[i][1]
          IN Mergeable([j \in 1..Len(ne) |-> IF ne[j][1] = h THEN Tail(ne[j]) ELSE ne[j]])

\* type(name, tuple(bases), {}): raises TypeError on a duplicate base class and
\* when the bases have no consistent method resolution order.
NewType(name, bases) ==
  IF \/ \E i, j \in 1..Len(bases) : i < j /\ bases[i] = bases[j]
     \/ ~Mergeable([i \in 1..Len(bases) |-> Mro(bases[i])] \o <<bases>>)
  THEN [err |-> "TypeError", val |-> Nothing]
  ELSE [err |-> "", val |-> Out("type", name, <<>>, <<>>, bases, <<>>, "new")]

\* ------------------------------------------------------------- registry
\* The registry is a function from the registered names to their class lists.
\* register with the list started afresh at every call (bases = [klass]).
RegisterOverwriting(reg, pixCls, klass) ==
  [k \in DOMAIN reg \cup {pixCls} |-> IF k = pixCls THEN <<klass>> ELSE reg[k]]

\* bases = cls._registered.get(pixCls, []); bases.append(klass);
\* cls._registered[pixCls] = bases
RegisterDeco(reg, pixCls, klass) ==
  LET bases == IF pixCls \in DOMAIN reg THEN reg[pixCls] ELSE <<>>
  IN [k \in DOMAIN reg \cup {pixCls} |->
        IF k = pixCls THEN Append(bases, klass) ELSE reg[k]]

\* get_pix_cls with the lookup written as setdefault, which stores the default.
LookupStoring(reg, key, default) ==
  IF key \in DOMAIN reg
  THEN [val |-> reg[key], reg |-> reg]
  ELSE [val |-> default, reg |-> [k \in DOMAIN reg \cup {key} |->
                                     IF k = key THEN default ELSE reg[k]]]

\* cls._registered.get(key, default): the value found and the registry after it.
Lookup(reg, key, default) ==
  [val |-> IF key \in DOMAIN reg THEN reg[key] ELSE default, reg |-> reg]

get_pix_cls(reg, name) ==
  LET found == Lookup(reg, Str(name), <<DefaultBase>>)
      obj == NewType(Str(name), found.val)
  IN [err |-> obj.err, val |-> obj.val, reg |-> found.reg]

\* obj(self, data): an instance of the synthesized type wrapping the mapping at p.
Instance(cls, p) == Out("obj", cls.v, <<>>, <<>>, cls.bases, p, "new")

\* ------------------------------------------------------------- traversal
\* data.get(key): the value stored under key, None when the key is absent.
DictGet(d, key) ==
  IF \E i \in 1..Len(d.ks) : d.ks[i] = key
  THEN d.items[CHOOSE i \in 1..Len(d.ks) : d.ks[i] = key]
  ELSE None

\* bool(x): a scalar by its value, a container by being non-empty.
Truthy(n) == IF n.t = "atom" THEN n.v \notin Falsy ELSE n.items # <<>>

RECURSIVE Concat(_)
Concat(ss) == IF ss = <<>> THEN <<>> ELSE Head(ss) \o Concat(Tail(ss))

\* iter_contents without the isinstance(l, dict) test on the elements.
iter_contents_unfiltered(root, p) ==
  LET d == NodeAt(root, p)
      inner(i) ==
        LET v == d.items[i]
        IN IF v.t = "dict" THEN <<Same(root, Append(p, i))>>
           ELSE IF v.t \in Containers
           THEN [j \in 1..Len(v.items) |-> Same(root, Append(Append(p, i), j))]
           ELSE <<>>
  IN Concat([i \in 1..Len(d.items) |-> inner(i)])

\* iter_contents(data) for the mapping at path p of root: the mappings among its
\* values and among the elements of its list, tuple and set values, each the
\* object of the raw graph itself.
iter_contents(root, p) ==
  LET d == NodeAt(root, p)
      inner(i) ==
        LET v == d.items[i]
            dicts == SelectSeq([j \in 1..Len(v.items) |-> j],
                               LAMBDA j : v.items[j].t = "dict")
        IN IF v.t = "dict" THEN <<Same(root, Append(p, i))>>
           ELSE IF v.t \in Containers
           THEN [x \in 1..Len(dicts) |-> Same(root, Append(Append(p, i), dicts[x]))]
           ELSE <<>>
  IN Concat([i \in 1..Len(d.items) |-> inner(i)])

\* iter_children(data, recursive) for the mapping at path p of root: the objects
\* yielded (ys) and the exception that ended the generator (err, "" for none).
RECURSIVE iter_children(_, _, _, _)
RECURSIVE iter_each(_, _, _, _)
iter_children(reg, root, p, recursive) ==
  LET pixCls == DictGet(NodeAt(root, p), "class")
      obj == get_pix_cls(reg, pixCls.v)
      own == IF Truthy(pixCls)
             THEN IF obj.err # ""
                  THEN [err |-> obj.err, ys |-> <<>>, reg |-> obj.reg]
                  ELSE [err |-> "", ys |-> <<Instance(obj.val, p)>>, reg |-> obj.reg]
             ELSE [err |-> "", ys |-> <<>>, reg |-> reg]
      rest == iter_each(own.reg, root, iter_contents(root, p), 1)
  IN IF own.err = "" /\ recursive
     THEN [err |-> rest.err, ys |-> own.ys \o rest.ys, reg |-> rest.reg]
     ELSE own

\* for x in xs[i..]: for obj in self.iter_children(x): yield obj
iter_each(reg, root, xs, i) ==
  IF i > Len(xs) THEN [err |-> "", ys |-> <<>>, reg |-> reg]
  ELSE LET h == iter_children(reg, root, xs[i].at, TRUE)
           r == iter_each(h.reg, root, xs, i + 1)
       IN IF h.err # "" THEN h
          ELSE [err |-> r.err, ys |-> h.ys \o r.ys, reg |-> r.reg]

\* a == b for two returned values that can be members of a set.
RECURSIVE PyEq(_, _)
PyEq(a, b) ==
  LET canon(v) == IF v = "b:False" THEN "i:0" ELSE v
  IN IF a.t # b.t THEN FALSE
     ELSE IF a.t = "atom" THEN canon(a.v) = canon(b.v)
     ELSE IF a.t = "tuple"
     THEN /\ Len(a.items) = Len(b.items)
          /\ \A i \in 1..Len(a.items) : PyEq(a.items[i], b.items[i])
     ELSE a = b

\* set(results): the elements of results without repeats.
RECURSIVE PySet(_)
PySet(results) ==
  IF results = <<>> THEN <<>>
  ELSE LET front == PySet(SubSeq(results, 1, Len(results) - 1))
           last == results[Len(results)]
       IN IF \E i \in 1..Len(front) : PyEq(front[i], last)
          THEN front ELSE Append(front, last)

\* objectfy(data) for the node at path p of root: the value returned (val) or the
\* exception raised (err), and the registry after the call.
RECURSIVE objectfy(_, _, _)
RECURSIVE objectfy_each(_, _, _, _)
objectfy(reg, root, p) ==
  LET d == NodeAt(root, p)
      objCls == DictGet(d, "class")
      obj == get_pix_cls(reg, objCls.v)
      each == objectfy_each(reg, root, p, 1)
      results ==
        CASE d.t = "dict" -> New("dict", d.ks, each.vals)
          [] d.t = "tuple" -> New("tuple", <<>>, each.vals)
          [] d.t = "set" -> New("set", <<>>, PySet(each.vals))
          [] OTHER -> New("list", <<>>, each.vals)
  IN IF d.t = "dict" /\ Truthy(objCls)
     THEN IF obj.err # ""
          THEN [err |-> obj.err, val |-> Nothing, reg |-> obj.reg]
          ELSE [err |-> "", val |-> Instance(obj.val, p), reg |-> obj.reg]
     ELSE IF d.t = "dict" \/ d.t \in Containers
     THEN IF each.err # ""
          THEN [err |-> each.err, val |-> Nothing, reg |-> each.reg]
          ELSE [err |-> "", val |-> results, reg |-> each.reg]
     ELSE [err |-> "", val |-> Same(root, p), reg |-> reg]

\* self.objectfy(x) for the children i.. of the node at p, stopping at the
\* first exception.
objectfy_each(reg, root, p, i) ==
  IF i > Len(NodeAt(root, p).items) THEN [err |-> "", vals |-> <<>>, reg |-> reg]
  ELSE LET h == objectfy(reg, root, Append(p, i))
           r == objectfy_each(h.reg, root, p, i + 1)
       IN IF h.err # "" THEN [err |-> h.err, vals |-> <<>>, reg |-> h.reg]
          ELSE [err |-> r.err, vals |-> <<h.val>> \o r.vals, reg |-> r.reg]

\* ------------------------------------------------------------- state machine
\* data     : the raw graph the caller holds
\* registry : Factory._registered
\* calls    : the register calls made so far, <<name, class>> each, in call order
\* op, arg  : the last operation called and its arguments
\* ret      : what it returned or yielded (out) and the exception it raised (err)
NoArg == [name |-> "", klass |-> "", recursive |-> FALSE]

Returned(vals) == [err |-> "", out |-> vals]

\* The names get_pix_cls is called with directly (name : str): the names
\* register is called with and one that is never registered.
QueryNames == Names \cup {"s:Bar"}

Start(trees) ==
  /\ data \in trees
  /\ registry = [k \in {} |-> <<>>]
  /\ calls = <<>>
  /\ op = "init"
  /\ arg = NoArg
  /\ ret = Returned(<<>>)

Init == Start(Gen(SampleDepth))

InitTree == Start(Gen(MaxDepth))

\* Factory.register(pixCls)(klass)
Register(pixCls, klass) ==
  /\ Len(calls) < MaxRegs
  /\ registry' = RegisterDeco(registry, pixCls, klass)
  /\ calls' = Append(calls, <<pixCls, klass>>)
  /\ op' = "register"
  /\ arg' = [NoArg EXCEPT !.name = pixCls, !.klass = klass]
  /\ ret' = Returned(<<Out("class", klass, <<>>, <<>>, <<>>, <<>>, "arg")>>)
  /\ UNCHANGED data

\* Factory.get_pix_cls(name)
GetPixCls(name) ==
  LET r == get_pix_cls(registry, name)
  IN /\ registry' = r.reg
     /\ op' = "get_pix_cls"
     /\ arg' = [NoArg EXCEPT !.name = name]
     /\ ret' = [err |-> r.err, out |-> IF r.err = "" THEN <<r.val>> ELSE <<>>]
     /\ UNCHANGED <<data, calls>>

\* list(Factory.iter_contents(data)), data a dict
IterContents ==
  /\ data.t = "dict"
  /\ op' = "iter_contents"
  /\ arg' = NoArg
  /\ ret' = Returned(iter_contents(data, <<>>))
  /\ UNCHANGED <<data, registry, calls>>

\* list(factory.iter_children(data, recursive)), data a dict
IterChildren(recursive) ==
  LET r == iter_children(registry, data, <<>>, recursive)
  IN /\ data.t = "dict"
     /\ registry' = r.reg
     /\ op' = "iter_children"
     /\ arg' = [NoArg EXCEPT !.recursive = recursive]
     /\ ret' = [err |-> r.err, out |-> r.ys]
     /\ UNCHANGED <<data, calls>>

\* factory.objectfy(data)
Objectfy ==
  LET r == objectfy(registry, data, <<>>)
  IN /\ registry' = r.reg
     /\ op' = "objectfy"
     /\ arg' = NoArg
     /\ ret' = [err |-> r.err, out |-> IF r.err = "" THEN <<r.val>> ELSE <<>>]
     /\ UNCHANGED <<data, calls>>

Next ==
  \/ \E pixCls \in Names, klass \in Classes : Register(pixCls, klass)
  \/ \E name \in QueryNames : GetPixCls(name)
  \/ IterContents
  \/ \E recursive \in BOOLEAN : IterChildren(recursive)
  \/ Objectfy

Spec == Init /\ [][Next]_vars

\* The same operations over deeper raw graphs, with one class registered again
\* and again under the tag the graphs carry.
NextTree ==
  \/ Register("s:Foo", "K1")
  \/ \E name \in QueryNames : GetPixCls(name)
  \/ IterContents
  \/ \E recursive \in BOOLEAN : IterChildren(recursive)
  \/ Objectfy

SpecTree == InitTree /\ [][NextTree]_vars

\* ------------------------------------------------------------- claims
Tagged(n) == n.t = "dict" /\ Truthy(DictGet(n, "class"))

\* The classes registered under name n, in call order.
RegisteredUnder(n) ==
  LET mine == SelectSeq(calls, LAMBDA c : c[1] = n)
  IN [i \in 1..Len(mine) |-> mine[i][2]]

\* C1: objectfy of a mapping with a type tag returns one Promoted Object whose
\* type is named by the tag and which wraps the mapping passed in itself; the
\* raw graph, the nested tagged mappings included, stays as it was.
C1_TaggedMappingIsPromoted ==
  (op = "objectfy" /\ Tagged(data)) =>
    /\ ret.err = ""
    /\ Len(ret.out) = 1
    /\ ret.out[1].t = "obj"
    /\ ret.out[1].v = Str(DictGet(data, "class").v)
    /\ ret.out[1].at = <<>>
    /\ ret.out[1].items = <<>>

\* C2: objectfy of a mapping without a type tag returns a new mapping with the
\* same keys whose value under each key is objectfy of the input's value; a
\* scalar is returned as it is.
C2_UntaggedMappingIsRebuilt ==
  /\ (op = "objectfy" /\ data.t = "dict" /\ ~Tagged(data)) =>
       /\ ret.err = ""
       /\ Len(ret.out) = 1
       /\ ret.out[1].t = "dict"
       /\ ret.out[1].src = "new"
       /\ ret.out[1].ks = data.ks
       /\ Len(ret.out[1].items) = Len(data.items)
       /\ \A i \in 1..Len(data.items) :
            LET sub == objectfy(registry, data, <<i>>)
            IN sub.err = "" /\ ret.out[1].items[i] = sub.val
  /\ (op = "objectfy" /\ data.t = "atom") =>
       ret = Returned(<<Out("atom", data.v, <<>>, <<>>, <<>>, <<>>, "arg")>>)

\* C3: objectfy of a list returns a new list, of a tuple a tuple, of a set a
\* set; a list's or tuple's result has the input's length and objectfy of the
\* i-th element at i, a set's result has as many elements as the input.
C3_ContainerKindIsKept ==
  (op = "objectfy" /\ data.t \in Containers) =>
    /\ ret.err = ""
    /\ Len(ret.out) = 1
    /\ ret.out[1].t = data.t
    /\ ret.out[1].src = "new"
    /\ Len(ret.out[1].items) = Len(data.items)
    /\ data.t \in {"list", "tuple"} =>
         \A i \in 1..Len(data.items) :
           LET sub == objectfy(registry, data, <<i>>)
           IN sub.err = "" /\ ret.out[1].items[i] = sub.val

\* C5: get_pix_cls(name) returns a type named str(name) whose bases are the
\* classes registered under name in registration order, or PIXObject alone
\* when nothing is registered under name.
C5_BasesAreRegistrations ==
  (op = "get_pix_cls") =>
    /\ ret.err = ""
    /\ Len(ret.out) = 1
    /\ ret.out[1].t = "type"
    /\ ret.out[1].v = Str(arg.name)
    /\ ret.out[1].bases = IF RegisteredUnder(arg.name) # <<>>
                          THEN RegisteredUnder(arg.name)
                          ELSE <<DefaultBase>>

\* C6: get_pix_cls raises no error, whatever was registered.
C6_GetPixClsNeverFails ==
  (op = "get_pix_cls") => (ret.err = "" /\ Len(ret.out) = 1 /\ ret.out[1].t = "type")

\* The paths of the mappings whose objects iter_children is to yield, in order:
\* the node's own when it is tagged, then, when recursive, those of each mapping
\* iter_contents yields, taken recursively.
RECURSIVE PreOrder(_, _, _)
PreOrder(root, p, recursive) ==
  LET xs == iter_contents(root, p)
      own == IF Tagged(NodeAt(root, p)) THEN <<p>> ELSE <<>>
  IN IF recursive
     THEN own \o Concat([i \in 1..Len(xs) |-> PreOrder(root, xs[i].at, TRUE)])
     ELSE own

\* ret.out is one Promoted Object per path of ps, in that order, each wrapping
\* the mapping at its path and of the type named by that mapping's tag.
YieldsObjectsOf(ps) ==
  /\ ret.err = ""
  /\ Len(ret.out) = Len(ps)
  /\ \A i \in 1..Len(ps) :
       /\ ret.out[i].t = "obj"
       /\ ret.out[i].at = ps[i]
       /\ ret.out[i].v = Str(DictGet(NodeAt(data, ps[i]), "class").v)

\* C7: iter_children yields the node's own object first when the node is
\* tagged, then, only when recursive, the objects of every mapping iter_contents
\* yields, depth first in pre-order.
C7_ChildrenInPreOrder ==
  (op = "iter_children") => YieldsObjectsOf(PreOrder(data, <<>>, arg.recursive))

\* The paths iter_contents is to yield for the mapping at the root: the values
\* that are mappings and the mappings directly inside list, tuple and set values.
ContentPaths ==
  {<<i>> : i \in {j \in 1..Len(data.items) : data.items[j].t = "dict"}}
  \cup UNION {{<<i, j>> : j \in {k \in 1..Len(data.items[i].items) :
                                   data.items[i].items[k].t = "dict"}} :
              i \in {k \in 1..Len(data.items) : data.items[k].t \in Containers}}

\* Path p comes before path q in iteration order.
Before(p, q) ==
  \/ p[1] < q[1]
  \/ p[1] = q[1] /\ Len(p) = 2 /\ Len(q) = 2 /\ p[2] < q[2]

\* C8: iter_contents yields exactly the mappings among the values and among the
\* elements of the list, tuple and set values, each once, the objects of the
\* raw graph themselves, in iteration order, and nothing else.
C8_ContentsAreImmediateMappings ==
  (op = "iter_contents") =>
    /\ ret.err = ""
    /\ {ret.out[i].at : i \in 1..Len(ret.out)} = ContentPaths
    /\ \A i \in 1..Len(ret.out) :
         /\ ret.out[i].t = "dict"
         /\ ret.out[i].src = "arg"
         /\ NodeAt(data, ret.out[i].at).t = "dict"
    /\ \A i, j \in 1..Len(ret.out) : i < j => Before(ret.out[i].at, ret.out[j].at)

\* C9: objectfy, iter_children, iter_contents and get_pix_cls change neither
\* the raw graph nor the registry; only register changes the registry.
C9_OnlyRegisterChangesState ==
  [][(op' # "register") => (registry' = registry /\ data' = data)]_vars

\* The mapping has a 'class' entry and its value is falsy.
FalsyTagged(n) ==
  /\ n.t = "dict"
  /\ \E i \in 1..Len(n.ks) : n.ks[i] = "class"
  /\ ~Truthy(DictGet(n, "class"))

\* C10: a mapping whose 'class' entry is falsy is handled as an untagged one:
\* objectfy returns a new mapping with the same keys and objectfy of each value,
\* iter_children yields no object for the node itself, only its descendants'.
C10_FalsyTagIsNoTag ==
  /\ (op = "objectfy" /\ FalsyTagged(data)) =>
       /\ ret.err = ""
       /\ Len(ret.out) = 1
       /\ ret.out[1].t = "dict"
       /\ ret.out[1].src = "new"
       /\ ret.out[1].ks = data.ks
       /\ \A i \in 1..Len(data.items) :
            ret.out[1].items[i] = objectfy(registry, data, <<i>>).val
  /\ (op = "iter_children" /\ FalsyTagged(data)) =>
       /\ ret.err = ""
       /\ \A i \in 1..Len(ret.out) : ret.out[i].at # <<>>
       /\ arg.recursive =>
            YieldsObjectsOf(Concat([i \in 1..Len(iter_contents(data, <<>>)) |->
                 PreOrder(data, iter_contents(data, <<>>)[i].at, TRUE)]))
       /\ ~arg.recursive => ret.out = <<>>

\* C4: the registry holds, under each name, exactly the classes registered under
\* it, in call order with repeats, and no other name; register returns the class
\* it was given.
C4_RegistryIsCallHistory ==
  /\ DOMAIN registry = {calls[i][1] : i \in 1..Len(calls)}
  /\ \A n \in DOMAIN registry : registry[n] = RegisteredUnder(n)
  /\ (op = "register") =>
       ret = Returned(<<Out("class", arg.klass, <<>>, <<>>, <<>>, <<>>, "arg")>>)

\* ------------------------------------------------------------- where synthesis succeeds
\* Every registered class list is one type() accepts: no class twice, and a
\* consistent method resolution order.
SynthesisSucceeds ==
  \A n \in DOMAIN registry : NewType(n, registry[n]).err = ""

\* The statements of C1, C2, C3, C5, C7 and C10 hold in every state in which
\* no registered list makes type() raise: they fail through C6 alone.
HoldWhereSynthesisSucceeds ==
  SynthesisSucceeds =>
    /\ C1_TaggedMappingIsPromoted
    /\ C2_UntaggedMappingIsRebuilt
    /\ C3_ContainerKindIsKept
    /\ C5_BasesAreRegistrations
    /\ C6_GetPixClsNeverFails
    /\ C7_ChildrenInPreOrder
    /\ C10_FalsyTagIsNoTag

\* Witness of C4: a second registration of the same class under the same name
\* has just been made and both are kept.
C4_Witness ==
  /\ op = "register"
  /\ Len(calls) = 2
  /\ calls[1] = calls[2]
  /\ registry[arg.name] = <<arg.klass, arg.klass>>

\* Witness of C8: iter_contents has yielded a mapping found inside a sequence
\* value while a mapping nested two sequences deep was left out.
C8_Witness ==
  /\ op = "iter_contents"
  /\ \E i \in 1..Len(ret.out) : Len(ret.out[i].at) = 2
  /\ \E p \in Paths(data) :
       /\ Len(p) = 3
       /\ NodeAt(data, p).t = "dict"
       /\ NodeAt(data, <<p[1]>>).t \in Containers
       /\ NodeAt(data, <<p[1], p[2]>>).t \in Containers

\* Witness of C9: with a class registered, iter_children has promoted two
\* mappings, one of them through a lookup that found no registration.
C9_Witness ==
  /\ op = "iter_children"
  /\ registry # <<>>
  /\ Len(ret.out) >= 2
  /\ \E i \in 1..Len(ret.out) : ret.out[i].bases = <<DefaultBase>>
  /\ \E i \in 1..Len(ret.out) : ret.out[i].bases = <<"K1">>

====
